---- MODULE Spec2Model ----
(***************************************************************************)
(* Model of the bulk employee import (EmployeeImport component): CSV       *)
(* parsing, row mapping, validation, the correction loop and the           *)
(* sequential commit against the employee store.                           *)
(*                                                                         *)
(* JavaScript strings are TLA+ strings (Len, SubSeq and \o apply to them). *)
(* A JavaScript value is a record [t, s, n]: t is the type tag, s the      *)
(* string payload, n the number payload.                                   *)
(***************************************************************************)
EXTENDS Integers, Sequences, FiniteSets, TLC

(* ----------------------------------------------------------------------- *)
(* JavaScript values                                                       *)
(* ----------------------------------------------------------------------- *)
Undefined == [t |-> "undefined", s |-> "", n |-> 0]

NaN == [t |-> "NaN", s |-> "", n |-> 0]

Str(x) == [t |-> "string", s |-> x, n |-> 0]

Num(x) == [t |-> "number", s |-> "", n |-> x]

\* JavaScript truthiness of a value: undefined, NaN, 0 and "" are falsy.
Truthy(v) ==
  CASE v.t = "undefined" -> FALSE
    [] v.t = "NaN"       -> FALSE
    [] v.t = "number"    -> v.n # 0
    [] OTHER             -> v.s # ""

(* ----------------------------------------------------------------------- *)
(* String primitives                                                       *)
(* ----------------------------------------------------------------------- *)
CharAt(s, i) == SubSeq(s, i, i)

IsSpace(c) == c \in {" ", "\t", "\r", "\n"}

RECURSIVE TrimStart(_)
TrimStart(s) ==
  IF Len(s) = 0 THEN s
  ELSE IF IsSpace(CharAt(s, 1)) THEN TrimStart(SubSeq(s, 2, Len(s)))
  ELSE s

RECURSIVE TrimEnd(_)
TrimEnd(s) ==
  IF Len(s) = 0 THEN s
  ELSE IF IsSpace(CharAt(s, Len(s))) THEN TrimEnd(SubSeq(s, 1, Len(s) - 1))
  ELSE s

\* String.prototype.trim
trim(s) == TrimEnd(TrimStart(s))

UpperChars == "ABCDEFGHIJKLMNOPQRSTUVWXYZ"

LowerChars == "abcdefghijklmnopqrstuvwxyz"

LowerChar(c) ==
  IF \E k \in 1..Len(UpperChars) : CharAt(UpperChars, k) = c
  THEN CharAt(LowerChars, CHOOSE k \in 1..Len(UpperChars) : CharAt(UpperChars, k) = c)
  ELSE c

RECURSIVE toLowerCase(_)
toLowerCase(s) ==
  IF Len(s) = 0 THEN s
  ELSE LowerChar(CharAt(s, 1)) \o toLowerCase(SubSeq(s, 2, Len(s)))

Digits == "0123456789"

IsDigit(c) == \E k \in 1..Len(Digits) : CharAt(Digits, k) = c

DigitVal(c) == (CHOOSE k \in 1..Len(Digits) : CharAt(Digits, k) = c) - 1

\* Length of the longest prefix of s made of decimal digits.
RECURSIVE DigitPrefixLen(_)
DigitPrefixLen(s) ==
  IF Len(s) = 0 \/ ~IsDigit(CharAt(s, 1)) THEN 0
  ELSE 1 + DigitPrefixLen(SubSeq(s, 2, Len(s)))

RECURSIVE DigitsValue(_)
DigitsValue(s) ==
  IF Len(s) = 0 THEN 0
  ELSE 10 * DigitsValue(SubSeq(s, 1, Len(s) - 1)) + DigitVal(CharAt(s, Len(s)))

\* parseInt(text) without a radix, on decimal input: leading white space is
\* skipped, an optional sign is read, then the longest run of digits; no
\* digit at all gives NaN.  Trailing characters are ignored.
parseInt(text) ==
  LET s0   == TrimStart(text)
      neg  == Len(s0) > 0 /\ CharAt(s0, 1) = "-"
      sgn  == Len(s0) > 0 /\ CharAt(s0, 1) \in {"-", "+"}
      s1   == IF sgn THEN SubSeq(s0, 2, Len(s0)) ELSE s0
      k    == DigitPrefixLen(s1)
      mag  == DigitsValue(SubSeq(s1, 1, k))
  IN IF k = 0 THEN NaN ELSE Num(IF neg THEN 0 - mag ELSE mag)

(* ----------------------------------------------------------------------- *)
(* Delimited-text parser                                                   *)
(* ----------------------------------------------------------------------- *)
\* text.split('\n'): the pieces between consecutive line feeds.
SplitLines(text) ==
  LET feeds  == {i \in 1..Len(text) : CharAt(text, i) = "\n"}
      nth(n) == CHOOSE i \in feeds : Cardinality({j \in feeds : j < i}) = n - 1
      count  == Cardinality(feeds)
      from(n) == IF n = 1 THEN 1 ELSE nth(n - 1) + 1
      to(n)   == IF n = count + 1 THEN Len(text) ELSE nth(n) - 1
  IN [n \in 1..(count + 1) |->
        IF from(n) > to(n) THEN "" ELSE SubSeq(text, from(n), to(n))]

\* ScanLine, except that a delimiter ends the cell inside quotes too.
RECURSIVE ScanLine_SplitsQuoted(_, _, _, _)
ScanLine_SplitsQuoted(line, row, current, inQuotes) ==
  IF Len(line) = 0 THEN Append(row, trim(current))
  ELSE LET char == CharAt(line, 1)
           rest == SubSeq(line, 2, Len(line))
       IN IF char = "\""
          THEN ScanLine_SplitsQuoted(rest, row, current, ~inQuotes)
          ELSE IF char = ","
               THEN ScanLine_SplitsQuoted(rest, Append(row, trim(current)), "", inQuotes)
               ELSE ScanLine_SplitsQuoted(rest, row, current \o char, inQuotes)

\* ScanLine, except that a quote is also kept as a character of its cell.
RECURSIVE ScanLine_KeepsQuotes(_, _, _, _)
ScanLine_KeepsQuotes(line, row, current, inQuotes) ==
  IF Len(line) = 0 THEN Append(row, trim(current))
  ELSE LET char == CharAt(line, 1)
           rest == SubSeq(line, 2, Len(line))
       IN IF char = "\""
          THEN ScanLine_KeepsQuotes(rest, row, current \o char, ~inQuotes)
          ELSE IF char = "," /\ ~inQuotes
               THEN ScanLine_KeepsQuotes(rest, Append(row, trim(current)), "", inQuotes)
               ELSE ScanLine_KeepsQuotes(rest, row, current \o char, inQuotes)

\* The character scan of one line: the state is (row, current, inQuotes).
RECURSIVE ScanLine(_, _, _, _)
ScanLine(line, row, current, inQuotes) ==
  IF Len(line) = 0 THEN Append(row, trim(current))
  ELSE LET char == CharAt(line, 1)
           rest == SubSeq(line, 2, Len(line))
       IN IF char = "\""
          THEN ScanLine(rest, row, current, ~inQuotes)
          ELSE IF char = "," /\ ~inQuotes
               THEN ScanLine(rest, Append(row, trim(current)), "", inQuotes)
               ELSE ScanLine(rest, row, current \o char, inQuotes)

parseCSV(text) ==
  LET all   == SplitLines(text)
      lines == SelectSeq(all, LAMBDA line : trim(line) # "")
  IN [k \in 1..Len(lines) |-> ScanLine(lines[k], <<>>, "", FALSE)]

(* ----------------------------------------------------------------------- *)
(* Record mapper                                                           *)
(* ----------------------------------------------------------------------- *)
expectedHeaders == <<"employee_id", "name", "age", "department", "salary", "hire_date">>

\* An employee object is a function from property names to values; reading
\* a property the object does not have gives undefined.
Get(emp, key) == IF key \in DOMAIN emp THEN emp[key] ELSE Undefined

\* { ...obj, [key]: value }
SetProp(obj, key, value) ==
  [k \in (DOMAIN obj) \cup {key} |-> IF k = key THEN value ELSE obj[k]]

EmptyObject == [k \in {} |-> Undefined]

\* The value stored for one cell, by the key of its header column.
CoerceCell(key, value) ==
  IF key \in {"age", "salary"}
  THEN (IF value # "" THEN parseInt(value) ELSE Undefined)
  ELSE IF key = "skills"
       THEN [t |-> "array", s |-> value, n |-> 0]
       ELSE (IF value # "" THEN Str(value) ELSE Undefined)

\* headerRow.forEach((header, colIndex) => ...): later columns overwrite
\* earlier ones that have the same key.
RECURSIVE MapCells(_, _, _, _)
MapCells(headerRow, row, colIndex, employee) ==
  IF colIndex > Len(headerRow) THEN employee
  ELSE LET key   == trim(toLowerCase(headerRow[colIndex]))
           value == IF colIndex <= Len(row) THEN trim(row[colIndex]) ELSE ""
       IN MapCells(headerRow, row, colIndex + 1,
                   SetProp(employee, key, CoerceCell(key, value)))

\* Properties of EditableEmployee that the spread never overrides.
BookKeys == {"id", "isValid", "validationErrors", "isExcluded"}

NoErrors == [k \in {} |-> ""]

\* MapRow, except that the id does not depend on the index of the row.
MapRow_SameId(headerRow, row, index) ==
  LET employee == MapCells(headerRow, row, 1, EmptyObject)
      keys     == (DOMAIN employee) \ BookKeys
  IN [k \in keys \cup BookKeys |->
        CASE k = "id"               -> "emp_0"
          [] k = "isValid"          -> FALSE
          [] k = "validationErrors" -> NoErrors
          [] k = "isExcluded"       -> FALSE
          [] OTHER                  -> employee[k]]

\* editableEmps.push({...empCreate, id: `emp_${index}`, isValid: false, ...})
MapRow(headerRow, row, index) ==
  LET employee == MapCells(headerRow, row, 1, EmptyObject)
      keys     == (DOMAIN employee) \ BookKeys
  IN [k \in keys \cup BookKeys |->
        CASE k = "id"               -> "emp_" \o ToString(index)
          [] k = "isValid"          -> FALSE
          [] k = "validationErrors" -> NoErrors
          [] k = "isExcluded"       -> FALSE
          [] OTHER                  -> employee[k]]

\* dataRows.forEach((row, index) => ...), index counted from 0.
MapRows(headerRow, dataRows) ==
  [k \in 1..Len(dataRows) |-> MapRow(headerRow, dataRows[k], k - 1)]

(* ----------------------------------------------------------------------- *)
(* Validation engine                                                       *)
(* ----------------------------------------------------------------------- *)
\* !employee.f || employee.f.trim() === ''   for a string-valued property
BlankString(v) == ~Truthy(v) \/ trim(v.s) = ""

\* IdErrorOf, except that of two rows sharing an identifier only the later
\* one is a duplicate.
IdErrorOf_FirstWins(employee, allEmployees, existing) ==
  IF BlankString(Get(employee, "employee_id"))
  THEN "Employee ID is required"
  ELSE LET currentEmployeeId == trim(Get(employee, "employee_id").s)
           me == CHOOSE k \in 1..Len(allEmployees) : allEmployees[k].id = employee.id
           earlier == {k \in 1..Len(allEmployees) :
                         /\ k < me
                         /\ Truthy(Get(allEmployees[k], "employee_id"))
                         /\ trim(Get(allEmployees[k], "employee_id").s) = currentEmployeeId}
       IN IF currentEmployeeId \in existing
          THEN "Employee ID already exists in database"
          ELSE IF earlier # {}
               THEN "Duplicate Employee ID found in CSV"
               ELSE ""

IdErrorOf(employee, allEmployees, existing) ==
  IF BlankString(Get(employee, "employee_id"))
  THEN "Employee ID is required"
  ELSE LET currentEmployeeId == trim(Get(employee, "employee_id").s)
           csvDuplicates ==
             SelectSeq(allEmployees, LAMBDA emp :
               /\ Truthy(Get(emp, "employee_id"))
               /\ trim(Get(emp, "employee_id").s) = currentEmployeeId
               /\ emp.id # employee.id)
       IN IF currentEmployeeId \in existing
          THEN "Employee ID already exists in database"
          ELSE IF Len(csvDuplicates) > 0
               THEN "Duplicate Employee ID found in CSV"
               ELSE ""

NameErrorOf(employee) ==
  IF BlankString(Get(employee, "name")) THEN "Name is required"
  ELSE IF Len(Get(employee, "name").s) < 2
       THEN "Name must be at least 2 characters"
       ELSE ""

MinAge == 16

MaxAge == 100

\* AgeErrorOf, except that the two ends of the range are refused.
AgeErrorOf_OpenRange(employee) ==
  LET age == Get(employee, "age")
  IN IF ~Truthy(age) THEN "Age is required"
     ELSE IF age.t # "number" \/ age.n <= MinAge \/ age.n >= MaxAge
          THEN "Age must be a number between 16 and 100"
          ELSE ""

AgeErrorOf(employee) ==
  LET age == Get(employee, "age")
  IN IF ~Truthy(age) THEN "Age is required"
     ELSE IF age.t # "number" \/ age.n < MinAge \/ age.n > MaxAge
          THEN "Age must be a number between 16 and 100"
          ELSE ""

DepartmentErrorOf(employee) ==
  IF BlankString(Get(employee, "department")) THEN "Department is required"
  ELSE ""

SalaryErrorOf(employee) ==
  LET salary == Get(employee, "salary")
  IN IF ~Truthy(salary) THEN "Salary is required"
     ELSE IF salary.t # "number" \/ salary.n < 0
          THEN "Salary must be a valid positive number"
          ELSE ""

\* /^\d{4}-\d{2}-\d{2}$/
dateRegex(s) ==
  /\ Len(s) = 10
  /\ \A k \in {1, 2, 3, 4, 6, 7, 9, 10} : IsDigit(CharAt(s, k))
  /\ CharAt(s, 5) = "-"
  /\ CharAt(s, 8) = "-"

IsLeapYear(y) == (y % 4 = 0 /\ y % 100 # 0) \/ y % 400 = 0

DaysInMonth(y, m) ==
  IF m = 2 THEN (IF IsLeapYear(y) THEN 29 ELSE 28)
  ELSE IF m \in {4, 6, 9, 11} THEN 30 ELSE 31

\* !isNaN(new Date(s).getTime()) for s of the form YYYY-MM-DD.  Every engine
\* rejects a month outside 01..12 and a day outside 01..31; an engine whose
\* date parser is strict also rejects a day past the end of the month, a
\* lenient one rolls it over into the next month.
DateParses(s, strict) ==
  LET y == DigitsValue(SubSeq(s, 1, 4))
      m == DigitsValue(SubSeq(s, 6, 7))
      d == DigitsValue(SubSeq(s, 9, 10))
  IN /\ m \in 1..12
     /\ d \in 1..31
     /\ strict => d <= DaysInMonth(y, m)

HireDateErrorOf(employee, strict) ==
  IF BlankString(Get(employee, "hire_date")) THEN "Hire date is required"
  ELSE IF ~dateRegex(Get(employee, "hire_date").s)
       THEN "Hire date must be in YYYY-MM-DD format"
       ELSE IF ~DateParses(Get(employee, "hire_date").s, strict)
            THEN "Invalid date"
            ELSE ""

\* The message validateEmployee leaves on one field ("" when it leaves none).
FieldError(field, employee, allEmployees, existing, strict) ==
  CASE field = "employee_id" -> IdErrorOf(employee, allEmployees, existing)
    [] field = "name"        -> NameErrorOf(employee)
    [] field = "age"         -> AgeErrorOf(employee)
    [] field = "department"  -> DepartmentErrorOf(employee)
    [] field = "salary"      -> SalaryErrorOf(employee)
    [] field = "hire_date"   -> HireDateErrorOf(employee, strict)

Fields == {expectedHeaders[k] : k \in 1..Len(expectedHeaders)}

\* validateEmployee: existing is the existingEmployees array the enclosing
\* render closed over.
validateEmployee(employee, allEmployees, existing, strict) ==
  LET failing == {f \in Fields :
                    FieldError(f, employee, allEmployees, existing, strict) # ""}
      errors  == [f \in failing |->
                    FieldError(f, employee, allEmployees, existing, strict)]
  IN [isValid |-> failing = {}, errors |-> errors]

\* validateAllEmployees, except that isValid is left as it was.
validateAllEmployees_KeepsIsValid(employees, existing, strict) ==
  [k \in 1..Len(employees) |->
     LET validation == validateEmployee(employees[k], employees, existing, strict)
     IN [employees[k] EXCEPT !.validationErrors = validation.errors]]

\* validateAllEmployees, except that each record is checked on its own.
validateAllEmployees_Alone(employees, existing, strict) ==
  [k \in 1..Len(employees) |->
     LET validation == validateEmployee(employees[k], <<employees[k]>>, existing, strict)
     IN [employees[k] EXCEPT !.isValid = validation.isValid,
                             !.validationErrors = validation.errors]]

\* validateAllEmployees, except that the errors a record already carries are
\* kept next to the new ones.
validateAllEmployees_Accumulates(employees, existing, strict) ==
  [k \in 1..Len(employees) |->
     LET validation == validateEmployee(employees[k], employees, existing, strict)
         before     == employees[k].validationErrors
         merged     == [f \in (DOMAIN before) \cup (DOMAIN validation.errors) |->
                          IF f \in DOMAIN validation.errors
                          THEN validation.errors[f] ELSE before[f]]
     IN [employees[k] EXCEPT !.isValid = (DOMAIN merged = {}),
                             !.validationErrors = merged]]

validateAllEmployees(employees, existing, strict) ==
  [k \in 1..Len(employees) |->
     LET validation == validateEmployee(employees[k], employees, existing, strict)
     IN [employees[k] EXCEPT !.isValid = validation.isValid,
                             !.validationErrors = validation.errors]]

(* ----------------------------------------------------------------------- *)
(* Bounds and inputs                                                       *)
(* ----------------------------------------------------------------------- *)
\* Number of file selections in one behaviour.
MaxLoads == 2

\* Number of field edits in one behaviour.
MaxEdits == 1

HeaderLine == "employee_id,name,age,department,salary,hire_date"

\* Two rows that share EMP001.
FileDup ==
  [name |-> "dup.csv",
   text |-> HeaderLine \o "\n" \o
            "EMP001,Al,30,IT,5,2024-01-01\n" \o
            "EMP001,Bo,31,IT,6,2024-01-02\n"]

\* Three rows that pass every field rule.
FileOk ==
  [name |-> "ok.csv",
   text |-> HeaderLine \o "\n" \o
            "EMP001,Al,30,IT,5,2024-01-01\n" \o
            "EMP002,Bo,31,IT,6,2024-01-02\n" \o
            "EMP003,Cy,32,HR,7,2024-01-03\n"]

\* A header and no data row.
FileHeaderOnly == [name |-> "empty.csv", text |-> HeaderLine \o "\n\n"]

\* Not a .csv file.
FileText == [name |-> "notes.txt", text |-> "hello\nworld\n"]

Files == {FileDup, FileOk, FileHeaderOnly, FileText}

\* Contents of the employee store when the behaviour starts.
InitialStores == {<<>>, <<"EMP002">>}

\* Texts the operator types into the inputs of the review table.
EditTexts ==
  [employee_id |-> {"", " EMP001", "EMP004"},
   name        |-> {"A"},
   age         |-> {"15"},
   department  |-> {""},
   salary      |-> {"0"},
   hire_date   |-> {""}]

\* Rows whose age or salary cell is not a plain number in range: letters
\* only, digits followed by a letter, zero, and a negative number.
FileCells ==
  [name |-> "cells.csv",
   text |-> HeaderLine \o "\n" \o
            "EMP011,Al,abc,IT,5,2024-01-01\n" \o
            "EMP012,Bo,30x,IT,6,2024-01-02\n" \o
            "EMP013,Cy,32,HR,0,2024-01-03\n" \o
            "EMP014,Di,33,HR,-5,2024-01-04\n"]

\* The six columns and a column email between them.
FileExtra ==
  [name |-> "extra.csv",
   text |-> "employee_id,name,age,email,department,salary,hire_date\n" \o
            "EMP021,Al,30,al@x.org,IT,5,2024-01-01\n" \o
            "EMP022,Bo,31,,IT,6,2024-01-02\n"]

\* A column email and no department column.
FileMissing ==
  [name |-> "missing.csv",
   text |-> "employee_id,name,age,email,salary,hire_date\n" \o
            "EMP031,Al,30,al@x.org,5,2024-01-01\n" \o
            "EMP032,Bo,31,,6,2024-01-02\n"]

CellFiles == {FileCells, FileExtra, FileMissing}

\* Hire dates of the right form: a day past the end of its month, a month
\* 13, and a leap day.
FileDates ==
  [name |-> "dates.csv",
   text |-> HeaderLine \o "\n" \o
            "EMP041,Al,30,IT,5,2024-02-30\n" \o
            "EMP042,Bo,31,IT,6,2024-13-01\n" \o
            "EMP043,Cy,32,HR,7,2024-02-29\n"]

\* Ages at and next to the ends of the range, zero, and no age.
FileAges ==
  [name |-> "ages.csv",
   text |-> HeaderLine \o "\n" \o
            "EMP051,Al,16,IT,5,2024-01-01\n" \o
            "EMP052,Bo,100,IT,5,2024-01-01\n" \o
            "EMP053,Cy,15,IT,5,2024-01-01\n" \o
            "EMP054,Di,101,IT,5,2024-01-01\n" \o
            "EMP055,Ed,0,IT,5,2024-01-01\n" \o
            "EMP056,Fy,,IT,5,2024-01-01\n"]

FieldFiles == {FileDates, FileAges}

\* Characters of the texts given to the parser on its own: a letter, the
\* delimiter, the quote, the line feed and a space.
ParserAlphabet == {"a", ",", "\"", "\n", " "}

\* Length of the longest such text.
MaxTextLen == 5

RECURSIVE TextsOfLen(_)
TextsOfLen(n) ==
  IF n = 0 THEN {""}
  ELSE {s \o c : s \in TextsOfLen(n - 1), c \in ParserAlphabet}

ParserTexts == UNION {TextsOfLen(n) : n \in 0..MaxTextLen}

\* parseCSV and the row mapping of every text a file can hold, computed once.
Texts == {file.text : file \in Files \cup CellFiles \cup FieldFiles} \cup ParserTexts

Parsed == [text \in Texts |-> parseCSV(text)]

Mapped ==
  [text \in Texts |->
     IF Len(Parsed[text]) < 2 THEN <<>>
     ELSE MapRows(Parsed[text][1], Tail(Parsed[text]))]

\* A load or an import that has returned: its locals are gone.
DoneLoad == [pc |-> "done", text |-> "", closure |-> {}]

(* ----------------------------------------------------------------------- *)
(* State                                                                   *)
(* ----------------------------------------------------------------------- *)
VARIABLES
  headers,            \* useState headers
  editableEmployees,  \* useState editableEmployees
  errors,             \* useState errors
  loading,            \* useState loading
  result,             \* useState result: <<>> is null, <<r>> a result r
  currentStep,        \* useState currentStep
  existingEmployees,  \* useState existingEmployees
  db,                 \* employee_id of the stored employees, oldest first
  strictDates,        \* whether the engine's Date parser is strict
  loads,              \* handleFile invocations: position and closure
  imports,            \* handleImport invocations: position and locals
  inflight,           \* createEmployee calls sent and not yet answered
  edits               \* number of edits made so far

vars == <<headers, editableEmployees, errors, loading, result,
          currentStep, existingEmployees, db, strictDates, loads, imports,
          inflight, edits>>

uiVars == <<headers, editableEmployees, errors, loading, result,
            currentStep, existingEmployees>>

Init ==
  /\ headers = <<>>
  /\ editableEmployees = <<>>
  /\ errors = <<>>
  /\ loading = FALSE
  /\ result = <<>>
  /\ currentStep = "upload"
  /\ existingEmployees = {}
  /\ db \in InitialStores
  /\ strictDates = FALSE
  /\ loads = <<>>
  /\ imports = <<>>
  /\ inflight = {}
  /\ edits = 0

(* ----------------------------------------------------------------------- *)
(* File load                                                               *)
(* ----------------------------------------------------------------------- *)
endsWith(s, suffix) ==
  /\ Len(s) >= Len(suffix)
  /\ SubSeq(s, Len(s) - Len(suffix) + 1, Len(s)) = suffix

\* handleFile up to reader.readAsText(file).  The file input is rendered in
\* the upload step only.  The handler and the onload callback it creates
\* close over the existingEmployees of the render that is on screen.
handleFile(file) ==
  /\ currentStep = "upload"
  /\ Len(loads) < MaxLoads
  /\ result' = <<>>
  /\ IF ~endsWith(file.name, ".csv")
     THEN /\ errors' = <<"Only CSV files are supported">>
          /\ loads' = loads
     ELSE /\ errors' = <<>>
          /\ loads' = Append(loads, [pc |-> "reading", text |-> file.text,
                                     closure |-> existingEmployees])
  /\ UNCHANGED <<headers, editableEmployees, loading, currentStep,
                 existingEmployees, db, strictDates, imports, inflight, edits>>

\* readerOnload, except that a text with too few rows also clears the
\* headers and the records.
readerOnload_Clears(k) ==
  /\ loads[k].pc = "reading"
  /\ LET parsed == Parsed[loads[k].text]
     IN IF Len(parsed) < 2
        THEN /\ errors' = <<"File must contain at least a header row and one data row">>
             /\ headers' = <<>>
             /\ editableEmployees' = <<>>
             /\ loads' = [loads EXCEPT ![k] = DoneLoad]
        ELSE /\ headers' = [c \in 1..Len(parsed[1]) |-> trim(toLowerCase(parsed[1][c]))]
             /\ errors' = errors
             /\ editableEmployees' = editableEmployees
             /\ loads' = [loads EXCEPT ![k].pc = "fetching"]
  /\ UNCHANGED <<loading, result, currentStep,
                 existingEmployees, db, strictDates, imports, inflight, edits>>

\* reader.onload up to the await of fetchExistingEmployees.
readerOnload(k) ==
  /\ loads[k].pc = "reading"
  /\ LET parsed == Parsed[loads[k].text]
     IN IF Len(parsed) < 2
        THEN /\ errors' = <<"File must contain at least a header row and one data row">>
             /\ headers' = headers
             /\ loads' = [loads EXCEPT ![k] = DoneLoad]
        ELSE /\ headers' = [c \in 1..Len(parsed[1]) |-> trim(toLowerCase(parsed[1][c]))]
             /\ errors' = errors
             /\ loads' = [loads EXCEPT ![k].pc = "fetching"]
  /\ UNCHANGED <<editableEmployees, loading, result, currentStep,
                 existingEmployees, db, strictDates, imports, inflight, edits>>

\* Page size getAllEmployees asks for when called without arguments.
DefaultLimit == 100

\* GET /employees/?skip=0&limit=100: the most recently created employees.
getAllEmployees(store) ==
  IF Len(store) <= DefaultLimit THEN store
  ELSE SubSeq(store, Len(store) - DefaultLimit + 1, Len(store))

\* fetchExistingEmployees, except that the outcome of the call is not looked
\* at: the identifiers are returned whether it failed or not.
fetchExistingEmployees_IgnoresFailure(store, ok) ==
  {getAllEmployees(store)[j] : j \in 1..Len(getAllEmployees(store))}

\* fetchExistingEmployees: the identifiers of the page, [] when the call fails.
fetchExistingEmployees(store, ok) ==
  IF ok THEN {getAllEmployees(store)[j] : j \in 1..Len(getAllEmployees(store))}
  ELSE {}

\* reader.onload from the return of the fetch to its end.  The validation
\* it runs is the validateAllEmployees of the render handleFile came from,
\* so it reads that render's existingEmployees.
onloadFetched(k, ok) ==
  /\ loads[k].pc = "fetching"
  /\ LET existingEmployeeIds == fetchExistingEmployees(db, ok)
         editableEmps        == Mapped[loads[k].text]
         validatedEmployees  ==
           validateAllEmployees(editableEmps, loads[k].closure, strictDates)
     IN /\ existingEmployees' = existingEmployeeIds
        /\ editableEmployees' = validatedEmployees
        /\ errors' = <<>>
        /\ currentStep' = IF Len(validatedEmployees) > 0 THEN "preview"
                          ELSE currentStep
  /\ loads' = [loads EXCEPT ![k] = DoneLoad]
  /\ UNCHANGED <<headers, loading, result, db, strictDates,
                 imports, inflight, edits>>

(* ----------------------------------------------------------------------- *)
(* Correction loop                                                         *)
(* ----------------------------------------------------------------------- *)
\* The value an input's onChange passes to updateEmployee for the text the
\* operator typed: text inputs pass it as it is, the two number inputs pass
\* parseInt(text) || undefined.
onChangeValue(field, text) ==
  IF field \in {"age", "salary"}
  THEN (IF Truthy(parseInt(text)) THEN parseInt(text) ELSE Undefined)
  ELSE Str(text)

\* ApplyField, except that the id test is missing: every record gets the value.
ApplyField_AllRows(prev, id, field, value) ==
  [k \in 1..Len(prev) |-> SetProp(prev[k], field, value)]

\* The map inside updateEmployee: { ...emp, [field]: value } for the record
\* whose id matches, every other record as it is.
ApplyField(prev, id, field, value) ==
  [k \in 1..Len(prev) |->
     IF prev[k].id = id THEN SetProp(prev[k], field, value) ELSE prev[k]]

\* updateEmployee(id, field, value), called from an input of the review
\* table; the table is rendered in the preview step only.
updateEmployee(id, field, text) ==
  /\ currentStep = "preview"
  /\ Len(editableEmployees) > 0
  /\ edits < MaxEdits
  /\ edits' = edits + 1
  /\ LET updated == ApplyField(editableEmployees, id, field,
                               onChangeValue(field, text))
     IN editableEmployees' =
          validateAllEmployees(updated, existingEmployees, strictDates)
  /\ UNCHANGED <<headers, errors, loading, result, currentStep,
                 existingEmployees, db, strictDates, loads, imports, inflight>>

\* The "Back to Upload" button of the review table.
backToUpload ==
  /\ currentStep = "preview"
  /\ Len(editableEmployees) > 0
  /\ currentStep' = "upload"
  /\ UNCHANGED <<headers, editableEmployees, errors, loading, result,
                 existingEmployees, db, strictDates, loads, imports, inflight,
                 edits>>

(* ----------------------------------------------------------------------- *)
(* Commit                                                                  *)
(* ----------------------------------------------------------------------- *)
\* Payload, except that every property of the record that came from the
\* file is passed on.
Payload_Spread(emp) == [f \in Fields \cup ((DOMAIN emp) \ BookKeys) |-> Get(emp, f)]

\* The object getValidEmployeesForImport builds from one record.
Payload(emp) == [f \in Fields |-> Get(emp, f)]

\* getValidEmployeesForImport without the isValid filter.
getValidEmployeesForImport_All(employees) ==
  [k \in 1..Len(employees) |-> Payload(employees[k])]

getValidEmployeesForImport(employees) ==
  LET valid == SelectSeq(employees, LAMBDA emp : emp.isValid)
  IN [k \in 1..Len(valid) |-> Payload(valid[k])]

NoResults == [created |-> 0, failed |-> 0, errors |-> <<>>, created_ids |-> <<>>]

\* The call the loop of import k sends for element idx of its snapshot.
CreateCall(k, idx, employee) == [imp |-> k, idx |-> idx, employee |-> employee]

\* The calls handleImport sends before its first await: the call for the
\* first element of the snapshot.
\* FirstCalls, except that the calls for all elements are sent together.
FirstCalls_All(k, validEmployees) ==
  {CreateCall(k, idx, validEmployees[idx]) : idx \in 1..Len(validEmployees)}

FirstCalls(k, validEmployees) == {CreateCall(k, 1, validEmployees[1])}

\* handleImport, except that it does not return when no record is valid and
\* the button is not disabled: the loop runs no iteration and the commit
\* completes with empty results.
handleImport_NoGuard ==
  /\ currentStep = "preview"
  /\ Len(editableEmployees) > 0
  /\ LET validEmployees == getValidEmployeesForImport(editableEmployees)
         k              == Len(imports) + 1
     IN IF Len(validEmployees) # 0
        THEN /\ imports' = Append(imports,
                             [pc |-> "awaiting", validEmployees |-> validEmployees,
                              all |-> editableEmployees, results |-> NoResults])
             /\ inflight' = inflight \cup FirstCalls(k, validEmployees)
             /\ loading' = TRUE
             /\ currentStep' = "import"
             /\ UNCHANGED result
        ELSE /\ imports' = Append(imports,
                             [pc |-> "done", validEmployees |-> <<>>,
                              all |-> <<>>, results |-> NoResults])
             /\ result' = <<NoResults>>
             /\ loading' = FALSE
             /\ currentStep' = "complete"
             /\ UNCHANGED inflight
  /\ UNCHANGED <<headers, editableEmployees, errors,
                 existingEmployees, db, strictDates, loads, edits>>

\* handleImport up to the first await.  The Import button is rendered in the
\* preview step and disabled while no record is valid.  all remembers the
\* records as they were when the snapshot was taken.
handleImport ==
  /\ currentStep = "preview"
  /\ Len(editableEmployees) > 0
  /\ LET validEmployees == getValidEmployeesForImport(editableEmployees)
         k              == Len(imports) + 1
     IN /\ Len(validEmployees) # 0
        /\ imports' = Append(imports,
                        [pc |-> "awaiting", validEmployees |-> validEmployees,
                         all |-> editableEmployees, results |-> NoResults])
        /\ inflight' = inflight \cup FirstCalls(k, validEmployees)
  /\ loading' = TRUE
  /\ currentStep' = "import"
  /\ UNCHANGED <<headers, editableEmployees, errors, result,
                 existingEmployees, db, strictDates, loads, edits>>

\* POST /employees/: the store refuses an employee_id it already holds, and
\* may refuse a request for a reason of its own (accept = FALSE).
StoreAccepts(store, employee, accept) ==
  /\ accept
  /\ \A j \in 1..Len(store) : store[j] # employee.employee_id.s

\* Tally, except that a failure is counted without its entry in errors.
Tally_DropsError(results, employee, created) ==
  IF created
  THEN [results EXCEPT !.created = @ + 1,
                       !.created_ids = Append(@, employee.employee_id.s)]
  ELSE [results EXCEPT !.failed = @ + 1]

\* Tally, except that a created employee is counted without its identifier
\* being put in created_ids.
Tally_NoId(results, employee, created) ==
  IF created
  THEN [results EXCEPT !.created = @ + 1]
  ELSE [results EXCEPT !.failed = @ + 1,
                       !.errors = Append(@, employee.employee_id.s
                                            \o ": An error occurred")]

\* The body of the for loop after the await: results after the answer.
Tally(results, employee, created) ==
  IF created
  THEN [results EXCEPT !.created = @ + 1,
                       !.created_ids = Append(@, employee.employee_id.s)]
  ELSE [results EXCEPT !.failed = @ + 1,
                       !.errors = Append(@, employee.employee_id.s
                                            \o ": An error occurred")]

\* NextCalls, except that the loop does not go on to the next element.
NextCalls_None(k, validEmployees, idx) == {}

\* The calls import k sends once the call for element idx has been
\* answered: the call for the next element, if there is one.
NextCalls(k, validEmployees, idx) ==
  IF idx < Len(validEmployees)
  THEN {CreateCall(k, idx + 1, validEmployees[idx + 1])}
  ELSE {}

DoneImport ==
  [pc |-> "done", validEmployees |-> <<>>, all |-> <<>>, results |-> NoResults]

\* createReturns, except that the identifier of a created employee is added
\* to existingEmployees.
createReturns_AddsIdentifier(call, accept) ==
  /\ call \in inflight
  /\ imports[call.imp].pc = "awaiting"
  /\ LET k        == call.imp
         imp      == imports[k]
         created  == StoreAccepts(db, call.employee, accept)
         results  == Tally(imp.results, call.employee, created)
         more     == NextCalls(k, imp.validEmployees, call.idx)
         finished == call.idx >= Len(imp.validEmployees)
     IN /\ db' = IF created THEN Append(db, call.employee.employee_id.s) ELSE db
        /\ existingEmployees' =
             IF created THEN existingEmployees \cup {call.employee.employee_id.s}
             ELSE existingEmployees
        /\ inflight' = (inflight \ {call}) \cup more
        /\ IF ~finished
           THEN /\ imports' = [imports EXCEPT ![k].results = results]
                /\ UNCHANGED <<result, currentStep, loading>>
           ELSE /\ imports' = [imports EXCEPT ![k] = DoneImport]
                /\ result' = <<results>>
                /\ currentStep' = "complete"
                /\ loading' = FALSE
  /\ UNCHANGED <<headers, editableEmployees, errors, strictDates, loads, edits>>

\* The store answers a call, and handleImport runs from that await to the
\* next one, or to its end.
createReturns(call, accept) ==
  /\ call \in inflight
  /\ imports[call.imp].pc = "awaiting"
  /\ LET k        == call.imp
         imp      == imports[k]
         created  == StoreAccepts(db, call.employee, accept)
         results  == Tally(imp.results, call.employee, created)
         more     == NextCalls(k, imp.validEmployees, call.idx)
         finished == call.idx >= Len(imp.validEmployees)
     IN /\ db' = IF created THEN Append(db, call.employee.employee_id.s) ELSE db
        /\ inflight' = (inflight \ {call}) \cup more
        /\ IF ~finished
           THEN /\ imports' = [imports EXCEPT ![k].results = results]
                /\ UNCHANGED <<result, currentStep, loading>>
           ELSE /\ imports' = [imports EXCEPT ![k] = DoneImport]
                /\ result' = <<results>>
                /\ currentStep' = "complete"
                /\ loading' = FALSE
  /\ UNCHANGED <<headers, editableEmployees, errors,
                 existingEmployees, strictDates, loads, edits>>

\* importMore, except that the fetched identifiers are kept.
importMore_KeepsIdentifiers ==
  /\ currentStep = "complete"
  /\ result # <<>>
  /\ currentStep' = "upload"
  /\ headers' = <<>>
  /\ editableEmployees' = <<>>
  /\ errors' = <<>>
  /\ result' = <<>>
  /\ UNCHANGED <<existingEmployees, loading, db, strictDates, loads, imports,
                 inflight, edits>>

\* The "Import More Employees" button of the results section, rendered when
\* the step is complete and a result is set.
importMore ==
  /\ currentStep = "complete"
  /\ result # <<>>
  /\ currentStep' = "upload"
  /\ headers' = <<>>
  /\ editableEmployees' = <<>>
  /\ errors' = <<>>
  /\ result' = <<>>
  /\ existingEmployees' = {}
  /\ UNCHANGED <<loading, db, strictDates, loads, imports, inflight, edits>>

(* ----------------------------------------------------------------------- *)
(* Specification                                                           *)
(* ----------------------------------------------------------------------- *)
RecordIds == {editableEmployees[k].id : k \in 1..Len(editableEmployees)}

\* An id no record of a batch has (rows are numbered from 0).
NoSuchId == "emp_9"

Next ==
  \/ \E file \in Files : handleFile(file)
  \/ \E k \in 1..Len(loads) : readerOnload(k)
  \/ \E k \in 1..Len(loads), ok \in BOOLEAN : onloadFetched(k, ok)
  \/ \E id \in RecordIds \cup {NoSuchId}, field \in Fields :
       \E text \in EditTexts[field] : updateEmployee(id, field, text)
  \/ backToUpload
  \/ handleImport
  \/ \E call \in inflight, accept \in BOOLEAN : createReturns(call, accept)
  \/ importMore

Spec == Init /\ [][Next]_vars

(* ----------------------------------------------------------------------- *)
(* Properties                                                              *)
(* ----------------------------------------------------------------------- *)
Rows == 1..Len(editableEmployees)

HasIdError(emp) == "employee_id" \in DOMAIN emp.validationErrors

\* The trimmed identifier of a record; "" when it has none.
TrimmedId(emp) ==
  IF Truthy(Get(emp, "employee_id")) THEN trim(Get(emp, "employee_id").s) ELSE ""

\* A step of updateEmployee.
EditStep == edits' # edits

\* C1: in the review step every record whose trimmed identifier is in the
\* identifier set fetched for the session has an error on employee_id and is
\* not valid.
C1_StoreDuplicateFlagged ==
  currentStep = "preview" =>
    \A k \in Rows :
      (TrimmedId(editableEmployees[k]) # ""
         /\ TrimmedId(editableEmployees[k]) \in existingEmployees)
      => (HasIdError(editableEmployees[k]) /\ ~editableEmployees[k].isValid)

\* Both of two records that have the same non-empty trimmed identifier carry
\* an error on employee_id.
BothDuplicatesFlagged(employees) ==
  \A a, b \in 1..Len(employees) :
    (a # b /\ TrimmedId(employees[a]) = TrimmedId(employees[b]))
    => (HasIdError(employees[a]) /\ HasIdError(employees[b]))

\* Records a and b share an identifier before the step, the step edits the
\* identifier of a alone, and the new identifier is not blank, is held by no
\* other record and is not in existingEmployees.
FixesOneOfTwo(a, b) ==
  /\ EditStep
  /\ a # b
  /\ Len(editableEmployees') = Len(editableEmployees)
  /\ TrimmedId(editableEmployees[a]) # ""
  /\ TrimmedId(editableEmployees[a]) = TrimmedId(editableEmployees[b])
  /\ Get(editableEmployees'[a], "employee_id") # Get(editableEmployees[a], "employee_id")
  /\ \A c \in Rows : c # a =>
       /\ Get(editableEmployees'[c], "employee_id") = Get(editableEmployees[c], "employee_id")
       /\ TrimmedId(editableEmployees'[c]) # TrimmedId(editableEmployees'[a])
  /\ TrimmedId(editableEmployees'[a]) # ""
  /\ TrimmedId(editableEmployees'[a]) \notin existingEmployees

\* C2, as claimed: two records with equal trimmed identifiers both carry an
\* identifier error, and after an edit that gives one of them an identifier
\* nobody else holds and the store does not hold, neither carries one.
C2_FixOneResolvesBoth ==
  [][/\ BothDuplicatesFlagged(editableEmployees')
     /\ \A a, b \in Rows :
          FixesOneOfTwo(a, b)
          => (~HasIdError(editableEmployees'[a]) /\ ~HasIdError(editableEmployees'[b]))]_vars

\* C2, amended: the same, when the identifier the untouched record keeps is
\* held by no third record and is not in existingEmployees.
C2_FixOneResolvesBothAmended ==
  [][/\ BothDuplicatesFlagged(editableEmployees')
     /\ \A a, b \in Rows :
          (/\ FixesOneOfTwo(a, b)
           /\ TrimmedId(editableEmployees[b]) \notin existingEmployees
           /\ \A c \in Rows : c \notin {a, b} =>
                TrimmedId(editableEmployees[c]) # TrimmedId(editableEmployees[b]))
          => (~HasIdError(editableEmployees'[a]) /\ ~HasIdError(editableEmployees'[b]))]_vars

\* The two rows of dup.csv after the first was given EMP004: neither has an
\* identifier error.
C2_Witness ==
  /\ currentStep = "preview"
  /\ edits > 0
  /\ Len(editableEmployees) = 2
  /\ TrimmedId(editableEmployees[1]) = "EMP004"
  /\ TrimmedId(editableEmployees[2]) = "EMP001"
  /\ ~HasIdError(editableEmployees[1])
  /\ ~HasIdError(editableEmployees[2])

\* C3: every record of the session is valid exactly when its validationErrors
\* is empty.
C3_ValidIffNoErrors ==
  \A k \in Rows :
    editableEmployees[k].isValid <=> (DOMAIN editableEmployees[k].validationErrors = {})

\* A batch under review with a valid and an invalid record.
C3_Witness ==
  /\ currentStep = "preview"
  /\ \E k \in Rows : editableEmployees[k].isValid
  /\ \E k \in Rows : DOMAIN editableEmployees[k].validationErrors # {}

\* The records of a batch that are valid, in row order.
ValidRows(all) == SelectSeq(all, LAMBDA emp : emp.isValid)

Running(k) == imports[k].pc = "awaiting"

\* The calls of import k that are in flight.
CallsOf(k) == {c \in inflight : c.imp = k}

\* The entry the loop appends to errors for an identifier.
ErrorEntry(id) == id \o ": An error occurred"

SeqRange(q) == {q[j] : j \in 1..Len(q)}

\* The identifiers an import took into its snapshot / left out of it.
SnapshotIds(all) ==
  {Get(all[j], "employee_id").s : j \in {i \in 1..Len(all) : all[i].isValid}}

LeftOutIds(all) ==
  {Get(all[j], "employee_id").s : j \in {i \in 1..Len(all) : ~all[i].isValid}}

\* While a commit runs: every call it has in flight carries a record that
\* was valid when it started, the calls sent so far are one more than the
\* answers tallied, and the tallies name snapshot records only.
C4_Running ==
  \A k \in 1..Len(imports) : Running(k) =>
    LET imp == imports[k]
        vr  == ValidRows(imp.all)
    IN /\ Len(imp.validEmployees) = Len(vr)
       /\ \A c \in CallsOf(k) :
            /\ c.idx \in 1..Len(vr)
            /\ c.employee = Payload(vr[c.idx])
            /\ imp.results.created + imp.results.failed = c.idx - 1
       /\ SeqRange(imp.results.created_ids) \subseteq SnapshotIds(imp.all)
       /\ SeqRange(imp.results.errors) \subseteq
            {ErrorEntry(id) : id \in SnapshotIds(imp.all)}

\* The step that ends a commit publishes a result whose created and failed
\* add up to the number of records valid at its start, and no record that
\* was invalid at its start is in either list.
C4_Finish ==
  \A k \in 1..Len(imports) :
    (Running(k) /\ imports'[k].pc = "done") =>
      LET all == imports[k].all
      IN /\ result' # <<>>
         /\ result'[1].created + result'[1].failed = Len(ValidRows(all))
         /\ Len(result'[1].created_ids) + Len(result'[1].errors) = Len(ValidRows(all))
         /\ \A id \in LeftOutIds(all) :
              /\ id \notin SeqRange(result'[1].created_ids)
              /\ ErrorEntry(id) \notin SeqRange(result'[1].errors)

\* C4: a commit over n records of which k are valid at its start sends
\* exactly k create calls, one per valid record and none for an invalid one;
\* when it ends created + failed = k, and the invalid records are in neither
\* result list.
C4_CommitAccounting == []C4_Running /\ [][C4_Finish]_vars

\* A finished commit over a batch with valid and invalid records whose totals
\* add up to the number of valid ones.
C4_Witness ==
  /\ currentStep = "complete"
  /\ result # <<>>
  /\ \E k \in Rows : ~editableEmployees[k].isValid
  /\ Len(ValidRows(editableEmployees)) >= 2
  /\ result[1].created + result[1].failed = Len(ValidRows(editableEmployees))
  /\ SeqRange(result[1].created_ids) \subseteq SnapshotIds(editableEmployees)

\* The step answers call c with a refusal: the call leaves the set of calls
\* in flight and the store keeps its contents.
Refused(c) == c \in inflight /\ c \notin inflight' /\ db' = db

\* C5: a create call the store refuses is tallied as one failure, with the
\* identifier and message of that record appended to errors and nothing
\* else changed in the results; the call for the next record of the snapshot
\* is sent, and after the last record the result is published and the step
\* is complete.
C5_FailureIsolated ==
  [][\A c \in inflight : Refused(c) =>
       LET imp      == imports[c.imp]
           expected == [imp.results EXCEPT
                          !.failed = @ + 1,
                          !.errors = Append(@, ErrorEntry(c.employee.employee_id.s))]
       IN IF c.idx < Len(imp.validEmployees)
          THEN /\ imports'[c.imp].pc = "awaiting"
               /\ imports'[c.imp].results = expected
               /\ CreateCall(c.imp, c.idx + 1, imp.validEmployees[c.idx + 1]) \in inflight'
          ELSE /\ result' = <<expected>>
               /\ currentStep' = "complete"]_vars

\* Three valid records, the second refused.
C5_Witness ==
  /\ currentStep = "complete"
  /\ result = <<[created |-> 2, failed |-> 1,
                 errors |-> <<"EMP002: An error occurred">>,
                 created_ids |-> <<"EMP001", "EMP003">>]>>

\* C6: a commit has exactly one create call in flight while it runs and none
\* after it, and the call is for the next record, in row order, of the
\* records valid at its start.
C6_Sequential ==
  \A k \in 1..Len(imports) :
    LET imp == imports[k]
    IN IF Running(k)
       THEN /\ Cardinality(CallsOf(k)) = 1
            /\ imp.validEmployees =
                 [j \in 1..Len(ValidRows(imp.all)) |-> Payload(ValidRows(imp.all)[j])]
            /\ \A c \in CallsOf(k) :
                 /\ c.idx = imp.results.created + imp.results.failed + 1
                 /\ c.employee = imp.validEmployees[c.idx]
       ELSE CallsOf(k) = {}

\* A commit of three records waiting for the answer to its third call.
C6_Witness ==
  \E k \in 1..Len(imports) :
    /\ Running(k)
    /\ Len(imports[k].validEmployees) = 3
    /\ \E c \in CallsOf(k) : c.idx = 3

\* C7: from the moment the step is import or complete, the records of the
\* session (field values, validationErrors, isValid) stay as they are until
\* the session is reset.
C7_FrozenOnceImporting ==
  [][(currentStep \in {"import", "complete"})
     => (currentStep' = "upload" \/ editableEmployees' = editableEmployees)]_vars

\* The step ends the load of a file / ends a commit.
LoadFinishes ==
  \E k \in 1..Len(loads) : loads[k].pc = "fetching" /\ loads'[k].pc = "done"

ImportFinishes ==
  \E k \in 1..Len(imports) : Running(k) /\ imports'[k].pc = "done"

\* The step starts a new session: records, result and identifiers are empty.
SessionReset ==
  /\ currentStep = "complete"
  /\ currentStep' = "upload"
  /\ editableEmployees' = <<>>
  /\ result' = <<>>
  /\ existingEmployees' = {}

C9_WholeBatchRevalidated ==
  [][EditStep =>
       \A k \in 1..Len(editableEmployees') :
         LET validation == validateEmployee(editableEmployees'[k], editableEmployees',
                                            existingEmployees', strictDates)
         IN /\ editableEmployees'[k].validationErrors = validation.errors
            /\ editableEmployees'[k].isValid = validation.isValid]_vars

\* The second row of ok.csv was given the identifier of the first, and the
\* first, which was not edited, carries the duplicate error.
C9_Witness ==
  /\ edits > 0
  /\ Len(editableEmployees) = 3
  /\ Get(editableEmployees[2], "employee_id") = Str(" EMP001")
  /\ Get(editableEmployees[1], "employee_id") = Str("EMP001")
  /\ HasIdError(editableEmployees[1])
  /\ editableEmployees[1].validationErrors.employee_id = "Duplicate Employee ID found in CSV"

\* The properties of a record that are not set by validation.
DataKeys(emp) == (DOMAIN emp) \ {"isValid", "validationErrors"}

\* The step changes no data property of any record, except possibly
\* property field of the records whose id is id, and keeps the number and
\* the order of the records.
OnlyCellChanges(id, field) ==
  /\ Len(editableEmployees') = Len(editableEmployees)
  /\ \A k \in Rows :
       /\ editableEmployees'[k].id = editableEmployees[k].id
       /\ DOMAIN editableEmployees'[k] \subseteq (DOMAIN editableEmployees[k]) \cup {field}
       /\ \A key \in DataKeys(editableEmployees[k]) :
            editableEmployees'[k][key] # editableEmployees[k][key]
            => (editableEmployees[k].id = id /\ key = field)
       /\ field \in DOMAIN editableEmployees'[k] \ DOMAIN editableEmployees[k]
            => editableEmployees[k].id = id

\* C10: updateEmployee(id, field, value) changes no field of a record with
\* another id and no other field of the record with that id, and keeps the
\* number and order of the records; with an id no record has it changes no
\* field value.
C10_EditFrame ==
  [][\A id \in RecordIds \cup {NoSuchId}, field \in Fields :
       \A text \in EditTexts[field] :
         updateEmployee(id, field, text) => OnlyCellChanges(id, field)]_vars

\* The name of the second row of ok.csv was edited; the names of the other
\* rows and the other fields of the second row are those of the file.
C10_Witness ==
  /\ edits > 0
  /\ Len(editableEmployees) = 3
  /\ Get(editableEmployees[1], "name") = Str("Al")
  /\ Get(editableEmployees[2], "name") = Str("A")
  /\ Get(editableEmployees[3], "name") = Str("Cy")
  /\ Get(editableEmployees[2], "employee_id") = Str("EMP002")

\* The value the row mapping stores under key for a cell holding text.
MapperValue(key, text) == CoerceCell(key, trim(text))

\* C11: the value an edit stores in a field is the value the row mapping
\* stores for a cell with the same text: trimmed, absent when empty after
\* trimming, parsed as an integer for age and salary.
C11_EditCoercionIsMapperCoercion ==
  [][\A id \in RecordIds, field \in Fields :
       \A text \in EditTexts[field] :
         updateEmployee(id, field, text) =>
           \A k \in Rows :
             editableEmployees[k].id = id
             => Get(editableEmployees'[k], field) = MapperValue(field, text)]_vars

(* ----------------------------------------------------------------------- *)
(* updateEmployee over every key of its parameter type                     *)
(* ----------------------------------------------------------------------- *)
\* The keys of EmployeeCreate, the type of updateEmployee's field parameter,
\* that are not among the six expected headers.
OtherKeys == {"status", "skills"}

\* The text given for such a key.
OtherTexts == {"active"}

NextEdit ==
  \/ Next
  \/ \E id \in RecordIds \cup {NoSuchId}, field \in OtherKeys :
       \E text \in OtherTexts : updateEmployee(id, field, text)

SpecEdit == Init /\ [][NextEdit]_vars

Scrambled(employees) ==
  [k \in 1..Len(employees) |->
     [employees[k] EXCEPT !.isValid = ~@,
                          !.validationErrors = [f \in Fields |-> "stale"]]]

\* Identifier sets a validation pass can be given in the current state.
IdentifierSets == {existingEmployees, SeqRange(db)}

\* C13: validating the output of a validation pass again, with the same
\* identifier set, gives the same validationErrors and isValid for every
\* record, and the output of a pass does not depend on the validationErrors
\* and isValid the records carried into it.
C13_ValidationIdempotent ==
  \A existing \in IdentifierSets :
    LET once == validateAllEmployees(editableEmployees, existing, strictDates)
    IN /\ validateAllEmployees(once, existing, strictDates) = once
       /\ validateAllEmployees(Scrambled(editableEmployees), existing, strictDates) = once

\* A batch under review after an edit, with an invalid record, that a
\* further pass leaves as it is.
C13_Witness ==
  /\ currentStep = "preview"
  /\ edits > 0
  /\ \E k \in Rows : ~editableEmployees[k].isValid
  /\ \E k \in Rows : editableEmployees[k].isValid
  /\ validateAllEmployees(editableEmployees, existingEmployees, strictDates)
       = editableEmployees

(* ----------------------------------------------------------------------- *)
(* The parser on short texts                                               *)
(* ----------------------------------------------------------------------- *)
\* A .csv file holding one of the short texts has been selected: handleFile
\* has returned and the reader has the text.
InitParser ==
  /\ headers = <<>>
  /\ editableEmployees = <<>>
  /\ errors = <<>>
  /\ loading = FALSE
  /\ result = <<>>
  /\ currentStep = "upload"
  /\ existingEmployees = {}
  /\ db = <<>>
  /\ strictDates = FALSE
  /\ \E text \in ParserTexts :
       loads = <<[pc |-> "reading", text |-> text, closure |-> {}]>>
  /\ imports = <<>>
  /\ inflight = {}
  /\ edits = 0

NextParser ==
  \/ \E k \in 1..Len(loads) : readerOnload(k)
  \/ \E k \in 1..Len(loads), ok \in BOOLEAN : onloadFetched(k, ok)

SpecParser == InitParser /\ [][NextParser]_vars

\* The positions of line that hold character c.
Positions(line, c) == {i \in 1..Len(line) : CharAt(line, i) = c}

\* The quotes of the line are balanced.
Balanced(line) == Cardinality(Positions(line, "\"")) % 2 = 0

\* The delimiters of line that have an even number of quotes before them.
OutsideDelimiters(line) ==
  {i \in Positions(line, ",") :
     Cardinality({j \in Positions(line, "\"") : j < i}) % 2 = 0}

\* s without the characters of the set drop.
RECURSIVE Without(_, _)
Without(s, drop) ==
  IF Len(s) = 0 THEN s
  ELSE (IF CharAt(s, 1) \in drop THEN "" ELSE CharAt(s, 1))
       \o Without(SubSeq(s, 2, Len(s)), drop)

\* The cells of a row written one after the other with a delimiter between.
RECURSIVE JoinCells(_)
JoinCells(row) ==
  IF Len(row) = 0 THEN ""
  ELSE IF Len(row) = 1 THEN row[1]
       ELSE row[1] \o "," \o JoinCells(Tail(row))

\* The lines of text that are not blank, in order.
NonBlankLines(text) == SelectSeq(SplitLines(text), LAMBDA line : trim(line) # "")

\* rows has one row per non-blank line of text, in order; a row has one cell
\* more than its line has delimiters outside quotes; and the characters of
\* the line other than quotes and spaces, the delimiters inside quotes
\* among them, are the characters of its cells.
RowsMatchLines(text, rows) ==
  LET lines == NonBlankLines(text)
  IN /\ Len(rows) = Len(lines)
     /\ \A k \in 1..Len(lines) :
          /\ Len(rows[k]) = 1 + Cardinality(OutsideDelimiters(lines[k]))
          /\ Without(JoinCells(rows[k]), {" "}) = Without(lines[k], {" ", "\""})

\* C14: when reader.onload parses a text whose quotes are balanced on every
\* line, the rows it gets are one per non-blank line in order, each with one
\* cell more than the line has delimiters outside quotes, and a delimiter
\* inside quotes is a character of its cell.
C14_RowAndCellStructure ==
  [][\A k \in 1..Len(loads) :
       (/\ loads[k].pc = "reading"
        /\ loads'[k].pc # "reading"
        /\ \A line \in SeqRange(SplitLines(loads[k].text)) : Balanced(line))
       => RowsMatchLines(loads[k].text, Parsed[loads[k].text])]_vars

\* A header a and one data line holding a quoted delimiter: the record has
\* the delimiter as the value of a.
C14_Witness ==
  /\ currentStep = "preview"
  /\ headers = <<"a">>
  /\ Len(editableEmployees) = 1
  /\ Get(editableEmployees[1], "a") = Str(",")

\* The message reader.onload reports for a text it cannot use.
ParseErrorMessage == "File must contain at least a header row and one data row"

\* The step takes load k from the reader to the fetch or to its end.
ParsesLoad(k) == loads[k].pc = "reading" /\ loads'[k].pc # "reading"

\* The step finishes load k after its fetch.
CompletesLoad(k) == loads[k].pc = "fetching" /\ loads'[k].pc = "done"

\* C15: a text with fewer than two non-blank lines is refused with the parse
\* error, the load ends without a fetch, and records, headers, identifiers
\* and step stay as they were; a text with two or more is not refused: the
\* fetch follows and the load ends with one record per data line, in review.
C15_ParseFailure ==
  [][\A k \in 1..Len(loads) :
       /\ ParsesLoad(k) =>
            IF Len(NonBlankLines(loads[k].text)) < 2
            THEN /\ errors' = <<ParseErrorMessage>>
                 /\ loads'[k].pc = "done"
                 /\ UNCHANGED <<editableEmployees, headers, existingEmployees,
                                currentStep>>
            ELSE /\ errors' = errors
                 /\ loads'[k].pc = "fetching"
       /\ CompletesLoad(k) =>
            /\ Len(NonBlankLines(loads[k].text)) >= 2
            /\ Len(editableEmployees') = Len(NonBlankLines(loads[k].text)) - 1
            /\ currentStep' = "preview"]_vars

\* The parse error is on screen in the upload step while the records,
\* headers and identifiers of the batch loaded before are still held.
C15_Witness ==
  /\ errors = <<ParseErrorMessage>>
  /\ currentStep = "upload"
  /\ Len(editableEmployees) = 3
  /\ Len(headers) = 6
  /\ existingEmployees # {}

(* ----------------------------------------------------------------------- *)
(* Files with irregular cells and headers, and a store past one page       *)
(* ----------------------------------------------------------------------- *)
\* A store holding one employee more than a page of getAllEmployees.
BigStore == [j \in 1..(DefaultLimit + 1) |-> "S" \o ToString(j)]

CellStores == {<<>>, BigStore}

InitCells ==
  /\ headers = <<>>
  /\ editableEmployees = <<>>
  /\ errors = <<>>
  /\ loading = FALSE
  /\ result = <<>>
  /\ currentStep = "upload"
  /\ existingEmployees = {}
  /\ db \in CellStores
  /\ strictDates = FALSE
  /\ loads = <<>>
  /\ imports = <<>>
  /\ inflight = {}
  /\ edits = 0

\* The text typed into the Department input.
DepartmentTexts == {"HR"}

NextCells ==
  \/ \E file \in CellFiles : handleFile(file)
  \/ \E k \in 1..Len(loads) : readerOnload(k)
  \/ \E k \in 1..Len(loads), ok \in BOOLEAN : onloadFetched(k, ok)
  \/ \E id \in RecordIds, text \in DepartmentTexts :
       updateEmployee(id, "department", text)
  \/ backToUpload
  \/ handleImport
  \/ \E call \in inflight, accept \in BOOLEAN : createReturns(call, accept)
  \/ importMore

SpecCells == InitCells /\ [][NextCells]_vars

\* text is an optional sign followed by one or more digits and nothing else.
IsIntegerText(text) ==
  LET digits == IF Len(text) > 0 /\ CharAt(text, 1) \in {"-", "+"}
                THEN SubSeq(text, 2, Len(text)) ELSE text
  IN Len(digits) > 0 /\ DigitPrefixLen(digits) = Len(digits)

\* The value is no value: undefined or NaN.
Absent(v) == v.t \in {"undefined", "NaN"}

\* The key of column c of a header row.
KeyOf(headerRow, c) == trim(toLowerCase(headerRow[c]))

\* C16: a load never drops a data row, and a record mapped from a row whose
\* age or salary cell is not empty and not a number has that field absent
\* and, after validation, an error on it.
C16_BadNumberIsAbsentAndFlagged ==
  [][\A k \in 1..Len(loads) : CompletesLoad(k) =>
       LET parsed == Parsed[loads[k].text]
       IN /\ Len(editableEmployees') = Len(parsed) - 1
          /\ \A r \in 2..Len(parsed), c \in 1..Len(parsed[1]) :
               (/\ KeyOf(parsed[1], c) \in {"age", "salary"}
                /\ c <= Len(parsed[r])
                /\ parsed[r][c] # ""
                /\ ~IsIntegerText(parsed[r][c]))
               => /\ Absent(Get(editableEmployees'[r - 1], KeyOf(parsed[1], c)))
                  /\ KeyOf(parsed[1], c)
                       \in DOMAIN editableEmployees'[r - 1].validationErrors]_vars

\* The record without the properties that are neither schema fields nor
\* bookkeeping.
Strip(emp) == [key \in (DOMAIN emp) \cap (Fields \cup BookKeys) |-> emp[key]]

StripAll(employees) == [k \in 1..Len(employees) |-> Strip(employees[k])]

\* The keys of a header row.
HeaderKeys(headerRow) == {KeyOf(headerRow, c) : c \in 1..Len(headerRow)}

\* Validation gives the records the errors and validity it gives them with
\* the columns outside the schema removed.
OutsideColumnsUnseen ==
  \A existing \in IdentifierSets :
    StripAll(validateAllEmployees(editableEmployees, existing, strictDates))
      = validateAllEmployees(StripAll(editableEmployees), existing, strictDates)

\* A record that lacks a schema field has an error on it and is not valid.
AbsentFieldFlagged ==
  \A k \in Rows, f \in Fields :
    ~Truthy(Get(editableEmployees[k], f))
    => (f \in DOMAIN editableEmployees[k].validationErrors
          /\ ~editableEmployees[k].isValid)

\* What a commit sends has the six schema fields, each with a value, and
\* nothing else.
CallsCarrySchemaOnly ==
  /\ \A c \in inflight :
       (DOMAIN c.employee = Fields /\ \A f \in Fields : Truthy(c.employee[f]))
  /\ \A k \in 1..Len(imports) : \A j \in 1..Len(imports[k].validEmployees) :
       /\ DOMAIN imports[k].validEmployees[j] = Fields
       /\ \A f \in Fields : Truthy(imports[k].validEmployees[j][f])

\* A load leaves the schema fields its header lacks out of every record,
\* with an error on each of them.
MissingColumnsAbsent ==
  \A k \in 1..Len(loads) : CompletesLoad(k) =>
    \A f \in Fields \ HeaderKeys(Parsed[loads[k].text][1]) :
      \A r \in 1..Len(editableEmployees') :
        /\ f \notin DOMAIN editableEmployees'[r]
        /\ f \in DOMAIN editableEmployees'[r].validationErrors
        /\ ~editableEmployees'[r].isValid

\* C17: a column outside the six schema fields changes no record's errors
\* and is not part of what a create call is given; a schema field whose
\* column the header lacks is absent in every record of the batch, each of
\* which has an error on it, and no record lacking a field is committed.
C17_HeaderHandling ==
  /\ [](OutsideColumnsUnseen /\ AbsentFieldFlagged /\ CallsCarrySchemaOnly)
  /\ [][MissingColumnsAbsent]_vars

\* missing.csv under review: the header has email and lacks department, and
\* each record has the department error and no other.
C17_Witness ==
  /\ currentStep = "preview"
  /\ edits = 0
  /\ "email" \in SeqRange(headers)
  /\ "department" \notin SeqRange(headers)
  /\ Len(editableEmployees) = 2
  /\ \A k \in Rows :
       /\ "email" \in DOMAIN editableEmployees[k]
       /\ DOMAIN editableEmployees[k].validationErrors = {"department"}

\* C18: a load whose identifier fetch fails still ends in the review step,
\* with an empty identifier set and with the records that share an
\* identifier flagged; and a create call the store refuses counts one
\* failure in a commit that goes on to its next record or to its result.
C18_FetchFailureDegrades ==
  [][/\ \A k \in 1..Len(loads) : onloadFetched(k, FALSE) =>
          /\ existingEmployees' = {}
          /\ currentStep' = "preview"
          /\ Len(editableEmployees') > 0
          /\ BothDuplicatesFlagged(editableEmployees')
     /\ \A c \in inflight : Refused(c) =>
          LET failed == imports[c.imp].results.failed
          IN \/ /\ imports'[c.imp].pc = "awaiting"
                /\ imports'[c.imp].results.failed = failed + 1
                /\ currentStep' = currentStep
             \/ /\ imports'[c.imp].pc = "done"
                /\ result' # <<>>
                /\ result'[1].failed = failed + 1
                /\ currentStep' = "complete"]_vars

\* The store held EMP002 and the fetch failed: ok.csv was committed with an
\* empty identifier set, EMP002 was refused and the other two were created.
C18_Witness ==
  /\ currentStep = "complete"
  /\ existingEmployees = {}
  /\ db = <<"EMP002", "EMP001", "EMP003">>
  /\ result # <<>>
  /\ result[1].created = 2
  /\ result[1].errors = <<ErrorEntry("EMP002")>>

\* C19: after a load whose identifier fetch succeeded, the identifier set of
\* the session holds the employee_id of every employee in the store, however
\* many the store holds.
C19_FetchedSetComplete ==
  [][\A k \in 1..Len(loads) :
       onloadFetched(k, TRUE) => SeqRange(db) \subseteq existingEmployees']_vars

\* C20: a record has no error on salary exactly when its salary is a number
\* greater than or equal to 0; a salary of 0 has none, a negative one has one.
C20_SalaryRangeClosed ==
  \A k \in Rows :
    LET salary == Get(editableEmployees[k], "salary")
    IN ("salary" \notin DOMAIN editableEmployees[k].validationErrors)
       <=> (salary.t = "number" /\ salary.n >= 0)

(* ----------------------------------------------------------------------- *)
(* Files at the edges of the field rules, on either kind of engine         *)
(* ----------------------------------------------------------------------- *)
\* The engine's Date parser is strict or lenient; which one is not known.
InitFields ==
  /\ headers = <<>>
  /\ editableEmployees = <<>>
  /\ errors = <<>>
  /\ loading = FALSE
  /\ result = <<>>
  /\ currentStep = "upload"
  /\ existingEmployees = {}
  /\ db \in InitialStores
  /\ strictDates \in BOOLEAN
  /\ loads = <<>>
  /\ imports = <<>>
  /\ inflight = {}
  /\ edits = 0

NextFields ==
  \/ \E file \in FieldFiles : handleFile(file)
  \/ \E k \in 1..Len(loads) : readerOnload(k)
  \/ \E k \in 1..Len(loads), ok \in BOOLEAN : onloadFetched(k, ok)
  \/ backToUpload
  \/ handleImport
  \/ \E call \in inflight, accept \in BOOLEAN : createReturns(call, accept)
  \/ importMore

SpecFields == InitFields /\ [][NextFields]_vars

\* A text of the form YYYY-MM-DD names a day of the calendar.
IsCalendarDate(s) ==
  LET y == DigitsValue(SubSeq(s, 1, 4))
      m == DigitsValue(SubSeq(s, 6, 7))
      d == DigitsValue(SubSeq(s, 9, 10))
  IN m \in 1..12 /\ d \in 1..DaysInMonth(y, m)

\* The value is a text of the form YYYY-MM-DD that names no day.
ImpossibleDate(v) == v.t = "string" /\ dateRegex(v.s) /\ ~IsCalendarDate(v.s)

\* C21: a record whose hire date has the form YYYY-MM-DD and names no day
\* of the calendar has an error on hire_date and is not valid, and no create
\* call carries such a date.
C21_ImpossibleDateRejected ==
  /\ \A k \in Rows :
       ImpossibleDate(Get(editableEmployees[k], "hire_date"))
       => ("hire_date" \in DOMAIN editableEmployees[k].validationErrors
             /\ ~editableEmployees[k].isValid)
  /\ \A c \in inflight : ~ImpossibleDate(c.employee.hire_date)

\* The id of every record is made from the index of its data row, counted
\* from 0, and no two records have the same id.
PositionalIds ==
  /\ \A k \in Rows : editableEmployees[k].id = "emp_" \o ToString(k - 1)
  /\ \A a, b \in Rows :
       a # b => editableEmployees[a].id # editableEmployees[b].id

\* A step that neither ends a load nor resets the session keeps the number
\* of records and the id of each.
IdsKept ==
  (~LoadFinishes /\ ~SessionReset) =>
    /\ Len(editableEmployees') = Len(editableEmployees)
    /\ \A k \in Rows : editableEmployees'[k].id = editableEmployees[k].id

\* C22: the ids of the records of a batch are distinct, each is made from
\* the position of its data row, and no edit, validation pass or commit
\* changes one.
C22_LocalIdsUniqueStable == []PositionalIds /\ [][IdsKept]_vars

\* ok.csv after an edit and a commit: the three records have the ids of
\* their rows.
C22_Witness ==
  /\ currentStep = "complete"
  /\ edits > 0
  /\ result # <<>>
  /\ result[1].created > 0
  /\ Len(editableEmployees) = 3
  /\ editableEmployees[1].id = "emp_0"
  /\ editableEmployees[2].id = "emp_1"
  /\ editableEmployees[3].id = "emp_2"

\* C23: existingEmployees is assigned when a load ends its fetch, and
\* emptied when a new session is started; no edit, no validation pass and no
\* step of a commit changes it, so an identifier a commit creates is not
\* added to it.
C23_IdentifiersReadOnly ==
  [][/\ existingEmployees' # existingEmployees => (LoadFinishes \/ SessionReset)
     /\ EditStep => existingEmployees' = existingEmployees
     /\ \A c \in inflight :
          c \notin inflight' => existingEmployees' = existingEmployees]_vars

\* A finished commit created EMP001 in a session whose fetched identifier
\* set is still {EMP002}.
C23_Witness ==
  /\ currentStep = "complete"
  /\ existingEmployees = {"EMP002"}
  /\ result # <<>>
  /\ "EMP001" \in SeqRange(result[1].created_ids)
  /\ "EMP001" \in SeqRange(db)

(* ----------------------------------------------------------------------- *)
(* Progress of a commit                                                    *)
(* ----------------------------------------------------------------------- *)
\* Every createEmployee call that was sent is answered, with the employee
\* created or with an error.
CallsReturn ==
  WF_vars(\E call \in inflight, accept \in BOOLEAN : createReturns(call, accept))

SpecLive == Init /\ [][Next]_vars /\ CallsReturn

\* A commit that is running stays as it was started until its last call is
\* answered: its snapshot is kept and it is not dropped.
CommitKept ==
  \A k \in 1..Len(imports) : Running(k) =>
    /\ Len(imports') >= Len(imports)
    /\ imports'[k].pc = "done" \/ imports'[k].validEmployees = imports[k].validEmployees

\* The step that ends a commit has tallied every record of its snapshot,
\* sets the result and puts the session in the complete step.
CommitEndsComplete ==
  \A k \in 1..Len(imports) : (Running(k) /\ imports'[k].pc = "done") =>
    /\ currentStep' = "complete"
    /\ result' # <<>>
    /\ result'[1].created + result'[1].failed = Len(imports[k].validEmployees)
    /\ loading' = FALSE

\* C24: when every create call is answered, a commit that has started ends,
\* in the complete step with its result set and every record of its snapshot
\* tallied; until then it is neither dropped nor sent back to review.
C24_CommitCompletes ==
  /\ \A k \in 1..MaxLoads :
       (k <= Len(imports) /\ Running(k))
         ~> (k <= Len(imports) /\ imports[k].pc = "done")
  /\ [][CommitKept /\ CommitEndsComplete]_vars

\* Every commit of the session has ended and the result of a commit of three
\* records is on screen.
C24_Witness ==
  /\ currentStep = "complete"
  /\ Len(imports) > 0
  /\ \A k \in 1..Len(imports) : imports[k].pc = "done"
  /\ inflight = {}
  /\ result # <<>>
  /\ result[1].created + result[1].failed = 3

\* The two counts of a results object are the lengths of its two lists.
CountsAreLengths(r) ==
  /\ r.created = Len(r.created_ids)
  /\ r.failed = Len(r.errors)

\* C25: at every step of a commit, and in the result it leaves, created is
\* the number of entries of created_ids and failed the number of entries of
\* errors; while it runs the two add up to the number of records answered so
\* far, so each answered record is in exactly one of the two lists.
C25_TotalsMatchLists ==
  /\ \A k \in 1..Len(imports) : Running(k) =>
       /\ CountsAreLengths(imports[k].results)
       /\ \A c \in CallsOf(k) :
            Len(imports[k].results.created_ids) + Len(imports[k].results.errors)
              = c.idx - 1
  /\ result # <<>> => CountsAreLengths(result[1])

\* A commit waiting for its third answer after one record was created and
\* one refused.
C25_Witness ==
  \E k \in 1..Len(imports) :
    /\ Running(k)
    /\ imports[k].results.created = 1
    /\ imports[k].results.failed = 1
    /\ \E c \in CallsOf(k) : c.idx = 3

\* The error a record carries on age; "" when it carries none.
AgeError(emp) ==
  IF "age" \in DOMAIN emp.validationErrors THEN emp.validationErrors.age ELSE ""

RECURSIVE WithoutQuotePairs(_)
WithoutQuotePairs(s) ==
  IF Len(s) < 2 THEN s
  ELSE IF SubSeq(s, 1, 2) = "\"\""
       THEN WithoutQuotePairs(SubSeq(s, 3, Len(s)))
       ELSE CharAt(s, 1) \o WithoutQuotePairs(SubSeq(s, 2, Len(s)))

\* The rows of the lines of a text, each line parsed as a text of its own.
RECURSIVE RowsLineByLine(_)
RowsLineByLine(lines) ==
  IF Len(lines) = 0 THEN <<>>
  ELSE parseCSV(Head(lines)) \o RowsLineByLine(Tail(lines))

\* No cell holds a quote; the row of each non-blank line is the row of the
\* same line with the pairs of adjacent quotes taken out; and the rows are
\* the rows of the lines parsed one by one.
QuotesOnlyToggle(text, rows) ==
  LET lines == NonBlankLines(text)
  IN /\ \A r \in 1..Len(rows) : \A c \in 1..Len(rows[r]) :
          Positions(rows[r][c], "\"") = {}
     /\ Len(rows) = Len(lines)
     /\ \A r \in 1..Len(lines) :
          rows[r] = ScanLine(WithoutQuotePairs(lines[r]), <<>>, "", FALSE)
     /\ rows = RowsLineByLine(SplitLines(text))

\* C27: when reader.onload parses a text, no cell of the rows holds a quote,
\* two quotes in a row change nothing, and every line is split as if it were
\* the only one, whatever quotes the lines before it hold.
C27_QuotesOnlyToggle ==
  [][\A k \in 1..Len(loads) :
       ParsesLoad(k) => QuotesOnlyToggle(loads[k].text, Parsed[loads[k].text])]_vars

\* The first line opens a quote and never closes it, so its delimiter stays
\* in the one header cell; the second line is read outside quotes.
C27_Witness ==
  /\ currentStep = "preview"
  /\ headers = <<",">>
  /\ Len(editableEmployees) = 1
  /\ Get(editableEmployees[1], ",") = Str("a")

\* No commit starts: no commit is added, a create call that is sent belongs
\* to a commit already running, a result that is set is that of a commit
\* already running, and the step does not become import.
NoCommitStarts ==
  /\ Len(imports') = Len(imports)
  /\ \A call \in inflight' \ inflight :
       call.imp <= Len(imports) /\ Running(call.imp)
  /\ result' # result => \E k \in 1..Len(imports) : Running(k)
  /\ currentStep' # "import"

\* C28: while the records are under review and none of them is valid, no
\* step starts a commit: the Import button does nothing, so no create call is
\* sent for these records, no result is set for them, and a click leaves the
\* step and the records as they are.
C28_NoValidNoCommit ==
  [][(/\ currentStep = "preview"
      /\ Len(editableEmployees) > 0
      /\ ValidRows(editableEmployees) = <<>>) => NoCommitStarts]_vars

\* Records under review, none of them valid, and nothing committed so far.
C28_Witness ==
  /\ currentStep = "preview"
  /\ Len(editableEmployees) > 0
  /\ ValidRows(editableEmployees) = <<>>
  /\ imports = <<>>
  /\ inflight = {}
  /\ result = <<>>

\* The employee_id column of the records is that of the rows of text.
RecordsFrom(text) ==
  /\ Len(editableEmployees) = Len(Mapped[text])
  /\ \A i \in 1..Len(editableEmployees) :
       Get(editableEmployees[i], "employee_id") =
         Get(Mapped[text][i], "employee_id")

\* The headers are those of the first row of text.
HeadersFrom(text) ==
  /\ Len(Parsed[text]) > 0
  /\ headers = [c \in 1..Len(Parsed[text][1]) |->
                  trim(toLowerCase(Parsed[text][1][c]))]

\* A load selected after load k has already finished.
LaterLoadDone(k) == \E j \in (k + 1)..Len(loads) : loads[j].pc = "done"

\* The records and the identifiers stay those of the file they came from,
\* and the headers are those of the file the records came from.
LaterFileKept ==
  /\ UNCHANGED existingEmployees
  /\ \A file \in CellFiles :
       /\ RecordsFrom(file.text) => RecordsFrom(file.text)'
       /\ RecordsFrom(file.text)' => HeadersFrom(file.text)'

\* C29: when a load finishes after a load selected later than it has
\* finished, the records, the headers and the existing identifiers stay
\* those of the later file.
C29_LastSelectedWins ==
  [][\A k \in 1..Len(loads) :
       (CompletesLoad(k) /\ LaterLoadDone(k)) => LaterFileKept]_vars

====
